---- MODULE Spec2Model ----
(***************************************************************************)
(* Model of genologics/entities.py: lazily fetched entities, the identity  *)
(* cache kept by the Lims session, the attribute descriptors and the UDF   *)
(* dictionary.                                                             *)
(*                                                                         *)
(* Python objects live on heaps: ents (Entity instances, an instance is    *)
(* its index) and nodes (udf:field elements, an element is its index).     *)
(* Text is a sequence of one-character strings, so that str(), int(),      *)
(* float() and strptime() are computed, not assumed.  sent holds the       *)
(* updates handed to lims.put, in order.                                   *)
(***************************************************************************)
EXTENDS Integers, Sequences, FiniteSets, TLC

VARIABLES ents, cache, nodes, view, gets, batches, sent, last

vars == <<ents, cache, nodes, view, gets, batches, sent, last>>

(***************************** bounds **************************************)
MaxEnts == 3
MaxCalls == 2
MaxBatch == 1
MaxPuts == 1

(************************* text and numbers ********************************)
Digits == <<"0", "1", "2", "3", "4", "5", "6", "7", "8", "9">>

IsDigit(c) == \E i \in 1..10 : Digits[i] = c

DigitVal(c) == (CHOOSE i \in 1..10 : Digits[i] = c) - 1

AllDigits(t) == Len(t) > 0 /\ \A i \in 1..Len(t) : IsDigit(t[i])

RECURSIVE NatStr(_)
NatStr(n) == IF n < 10 THEN <<Digits[n + 1]>>
             ELSE NatStr(n \div 10) \o <<Digits[(n % 10) + 1]>>

RECURSIVE NatVal(_)
NatVal(t) == IF Len(t) = 0 THEN 0
             ELSE 10 * NatVal(SubSeq(t, 1, Len(t) - 1)) + DigitVal(t[Len(t)])

\* str(int)
IntStr(n) == IF n < 0 THEN <<"-">> \o NatStr(0 - n) ELSE NatStr(n)

\* int(text): an optional sign and decimal digits, else ValueError
ParseInt(t) ==
    LET neg  == Len(t) > 0 /\ t[1] = "-"
        body == IF neg THEN Tail(t) ELSE t
    IN  IF AllDigits(body)
        THEN [ok |-> TRUE, n |-> IF neg THEN 0 - NatVal(body) ELSE NatVal(body)]
        ELSE [ok |-> FALSE, n |-> 0]

\* a float is held in tenths; str(float) always prints the decimal point
FloatStr(n) ==
    LET a == IF n < 0 THEN 0 - n ELSE n
    IN  (IF n < 0 THEN <<"-">> ELSE <<>>)
        \o NatStr(a \div 10) \o <<".">> \o <<Digits[(a % 10) + 1]>>

DotAt(t) == IF \E i \in 1..Len(t) : t[i] = "."
            THEN CHOOSE i \in 1..Len(t) : t[i] = "." /\ \A j \in 1..(i - 1) : t[j] # "."
            ELSE 0

\* float(text): digits, optionally a point and one more digit, else ValueError
ParseFloat(t) ==
    LET neg  == Len(t) > 0 /\ t[1] = "-"
        body == IF neg THEN Tail(t) ELSE t
        d    == DotAt(body)
        ip   == IF d = 0 THEN body ELSE SubSeq(body, 1, d - 1)
        fp   == IF d = 0 THEN <<>> ELSE SubSeq(body, d + 1, Len(body))
        ok   == AllDigits(ip) /\ (d = 0 \/ (Len(fp) = 1 /\ IsDigit(fp[1])))
        mag  == IF ok THEN 10 * NatVal(ip) + NatVal(fp) ELSE 0
    IN  [ok |-> ok, n |-> IF neg THEN 0 - mag ELSE mag]

Pad(t, w) == IF Len(t) >= w THEN t ELSE [i \in 1..(w - Len(t)) |-> "0"] \o t

\* a date is held as year * 10000 + month * 100 + day; str(date) is ISO
DateStr(n) ==
    Pad(NatStr(n \div 10000), 4) \o <<"-">> \o Pad(NatStr((n \div 100) % 100), 2)
    \o <<"-">> \o Pad(NatStr(n % 100), 2)

\* datetime.date(*time.strptime(text, "%Y-%m-%d")[:3])
ParseDate(t) ==
    LET shape == /\ Len(t) = 10
                 /\ t[5] = "-"
                 /\ t[8] = "-"
                 /\ AllDigits(SubSeq(t, 1, 4))
                 /\ AllDigits(SubSeq(t, 6, 7))
                 /\ AllDigits(SubSeq(t, 9, 10))
        y == NatVal(SubSeq(t, 1, 4))
        m == NatVal(SubSeq(t, 6, 7))
        d == NatVal(SubSeq(t, 9, 10))
        ok == shape /\ m \in 1..12 /\ d \in 1..31
    IN  [ok |-> ok, n |-> IF ok THEN y * 10000 + m * 100 + d ELSE 0]

\* str.lower() on the type attribute of a udf:field
Lower(s) == CASE s = "String"  -> "string"
              [] s = "Text"    -> "text"
              [] s = "Numeric" -> "numeric"
              [] s = "Boolean" -> "boolean"
              [] s = "Date"    -> "date"
              [] OTHER         -> s

(*************************** Python values *********************************)
\* t: the Python type; s: the characters of a string; n: the number
\* (int as is, float in tenths, bool 0/1, date as yyyymmdd)
VStr(s)   == [t |-> "str",   s |-> s,    n |-> 0]
VInt(n)   == [t |-> "int",   s |-> <<>>, n |-> n]
VFloat(n) == [t |-> "float", s |-> <<>>, n |-> n]
VBool(b)  == [t |-> "bool",  s |-> <<>>, n |-> IF b THEN 1 ELSE 0]
VDate(n)  == [t |-> "date",  s |-> <<>>, n |-> n]
VNone     == [t |-> "none",  s |-> <<>>, n |-> 0]
VOther    == [t |-> "other", s |-> <<>>, n |-> 0]
Absent    == [t |-> "absent", s |-> <<>>, n |-> 0]

Truthy(v) == CASE v.t = "none" -> FALSE
               [] v.t = "str"  -> Len(v.s) > 0
               [] v.t \in {"int", "float", "bool"} -> v.n # 0
               [] OTHER -> TRUE

IsBasestring(v) == v.t = "str"
\* bool is a subclass of int
IsIntOrFloat(v) == v.t \in {"int", "float", "bool"}
IsBool(v)       == v.t = "bool"
IsDate(v)       == v.t = "date"

\* str(value) for the values the code applies it to
PyStr(v) == CASE v.t = "int"   -> IntStr(v.n)
              [] v.t = "float" -> FloatStr(v.n)
              [] v.t = "bool"  -> IF v.n = 1 THEN <<"T", "r", "u", "e">>
                                  ELSE <<"F", "a", "l", "s", "e">>
              [] v.t = "date"  -> DateStr(v.n)
              [] OTHER         -> v.s

(******************************* URIs ***************************************)
\* A URI string is held by its components; path is the sequence of its
\* segments and query the characters after the question mark.
Uri(path, query) ==
    [scheme |-> "http", netloc |-> "lims", path |-> path, params |-> "",
     query |-> query, fragment |-> ""]

NoUri == Uri(<<>>, <<>>)

\* urlparse.urlparse(uri): a 6-tuple
UrlParse(u) == <<u.scheme, u.netloc, u.path, u.params, u.query, u.fragment>>

\* urlparse.urlunsplit(data) unpacks exactly five components:
\* scheme, netloc, url, query, fragment = data
UrlUnsplit(data) ==
    IF Len(data) # 5
    THEN [err |-> "ValueError", uri |-> NoUri]
    ELSE [err |-> "ok",
          uri |-> [scheme |-> data[1], netloc |-> data[2], path |-> data[3],
                   params |-> "", query |-> data[4], fragment |-> data[5]]]

\* the pieces of a text between separators c
RECURSIVE SplitOn(_, _)
SplitOn(t, c) ==
    IF \E i \in 1..Len(t) : t[i] = c
    THEN LET i == CHOOSE i \in 1..Len(t) : t[i] = c /\ \A j \in 1..(i - 1) : t[j] # c
         IN  <<SubSeq(t, 1, i - 1)>> \o SplitOn(SubSeq(t, i + 1, Len(t)), c)
    ELSE <<t>>

\* urlparse.parse_qs(query)[name]: the values given to name, blank ones dropped
QsValues(query, name) ==
    LET pieces == SplitOn(query, "&")
        pairs  == [i \in 1..Len(pieces) |-> SplitOn(pieces[i], "=")]
        hits   == SelectSeq(pairs, LAMBDA q : Len(q) = 2 /\ q[1] = name /\ Len(q[2]) > 0)
    IN  [i \in 1..Len(hits) |-> hits[i][2]]

StateName == <<"s", "t", "a", "t", "e">>
QUEUED == <<"Q", "U", "E", "U", "E", "D">>
DONE == <<"D", "O", "N", "E">>

\* "state=%s" % value
StateQuery(value) == StateName \o <<"=">> \o value

\* parts.path.split('/')[-1]
LastSegment(path) == IF Len(path) = 0 THEN "" ELSE path[Len(path)]

(**************************** documents ************************************)
NoId == ""

\* Entity._URI of each kind
UriOf(kind) == CASE kind = "Container"  -> "containers"
                 [] kind = "Artifact"   -> "artifacts"
                 [] kind = "Sample"     -> "samples"
                 [] kind = "Project"    -> "projects"
                 [] kind = "Lab"        -> "labs"
                 [] kind = "Researcher" -> "researchers"
                 [] kind = "Process"    -> "processes"

\* lims.uri(cls._URI, id)
EntityUri(kind, id) == Uri(<<"api", UriOf(kind), id>>, <<>>)

\* Entity.root: None, or the root element of the entity's document.  fields
\* and typeFields hold udf:field elements (indices into nodes); the other
\* children are read-only for the code and held by value.
NoDoc ==
    [present |-> FALSE, ver |-> 0, hasUri |-> FALSE, uri |-> NoUri, name |-> <<>>,
     fields |-> <<>>, hasType |-> FALSE, typeName |-> <<>>, typeFields |-> <<>>,
     placement |-> <<>>, location |-> <<>>, sample |-> <<>>, artifact |-> <<>>]

Field(name, type, text) == [name |-> name, type |-> type, text |-> text]

\* what the remote system holds: the document of (kind, id) in its version ver,
\* with its udf:field elements still to be allocated
Remote(kind, id, ver) ==
    LET base == [NoDoc EXCEPT !.present = TRUE, !.ver = ver, !.hasUri = TRUE,
                              !.uri = EntityUri(kind, id), !.name = << <<"n">> >>]
    IN  CASE kind = "Container" ->
               [doc |-> [base EXCEPT !.placement =
                           IF ver = 1
                           THEN << [value |-> "A:1", limsid |-> "A1"],
                                   [value |-> "B:1", limsid |-> "A2"] >>
                           ELSE <<>>],
                udf |-> <<>>, udt |-> <<>>]
          [] kind = "Artifact" ->
               [doc |-> IF ver = 1
                        THEN [base EXCEPT
                                !.location = << [container |-> "C1", value |-> "A:1"] >>,
                                !.sample = << EntityUri("Sample", "S1") >>]
                        ELSE [base EXCEPT
                                !.uri = Uri(<<"api", "artifacts", id>>, StateQuery(DONE)),
                                !.name = <<>>,
                                !.sample = << EntityUri("Sample", "S1"),
                                              EntityUri("Sample", "S1") >>],
                udf |-> <<>>, udt |-> <<>>]
          [] kind = "Sample" ->
               [doc |-> [base EXCEPT !.artifact = << EntityUri("Artifact", "A1") >>],
                udf |-> <<>>, udt |-> <<>>]
          [] kind = "Project" ->
               [doc |-> base,
                udf |-> << Field("Color", "String", <<"a">>),
                           Field("Vol", "Numeric", <<"8">>) >>,
                udt |-> <<>>]
          [] kind = "Lab" ->
               [doc |-> base,
                udf |-> << Field("Flag", "Boolean", <<"t", "r", "u", "e">>) >>,
                udt |-> <<>>]
          [] kind = "Process" ->
               [doc |-> base,
                udf |-> << Field("Day", "Date", DateStr(20120101)) >>,
                udt |-> <<>>]
          [] kind = "Researcher" ->
               [doc |-> [base EXCEPT !.hasType = TRUE, !.typeName = <<"T">>],
                udf |-> <<>>,
                udt |-> << Field("Note", "Text", <<"a", "\n", "b">>) >>]

Versions(kind) == IF kind \in {"Container", "Artifact"} THEN {1, 2} ELSE {1}

\* ElementTree parse of a response: the udf:field elements become new objects
Parsed(ns, r) ==
    LET nu == Len(r.udf)
        nt == Len(r.udt)
    IN  [nodes |-> ns \o r.udf \o r.udt,
         doc   |-> [r.doc EXCEPT
                      !.fields = [i \in 1..nu |-> Len(ns) + i],
                      !.typeFields = [i \in 1..nt |-> Len(ns) + nu + i]]]

(************************ entities and the cache ***************************)
MainKeys == {<<"Container", "C1">>, <<"Artifact", "A1">>, <<"Artifact", "A2">>,
             <<"Sample", "S1">>}
UdfKeys == {<<"Project", "P1">>, <<"Lab", "L1">>, <<"Process", "X1">>,
            <<"Researcher", "R1">>}
Keys == MainKeys \cup UdfKeys

\* Entity.get_key(id): u"%s %s" % (cls.__name__, id)
get_key(kind, id) == <<kind, id>>

Insts == 1..Len(ents)

NoCache == [k \in Keys |-> 0]

\* Entity.__init__(lims, id): a new instance with no root; with an id it is
\* stored in lims.cache under its key, whatever the cache held there
EntityInit(es, ch, kind, id) ==
    LET new == [kind |-> kind, id |-> id, root |-> NoDoc]
        inst == Len(es) + 1
    IN  [ents  |-> Append(es, new),
         cache |-> IF id # NoId THEN [ch EXCEPT ![get_key(kind, id)] = inst] ELSE ch,
         inst  |-> inst]

\* Lims._get_instance(klass, id): the cached instance, else a new one
GetInstance(es, ch, kind, id) ==
    IF ch[get_key(kind, id)] # 0
    THEN [ents |-> es, cache |-> ch, inst |-> ch[get_key(kind, id)]]
    ELSE EntityInit(es, ch, kind, id)

\* Entity.get without its test of self.root: every call fetches
EntityGet_AlwaysFetches(es, ns, e, force, resp) ==
    IF es[e].id = NoId
    THEN [ents |-> es, nodes |-> ns, err |-> "AssertionError", gets |-> 0]
    ELSE IF resp = 0
    THEN [ents |-> es, nodes |-> ns, err |-> "TransportError", gets |-> 1]
    ELSE LET p == Parsed(ns, Remote(es[e].kind, es[e].id, resp))
         IN  [ents |-> [es EXCEPT ![e].root = p.doc], nodes |-> p.nodes,
              err |-> "ok", gets |-> 1]

\* Entity.get that stores the outcome of lims.get whatever it is: a failed
\* fetch leaves the entity with no root
EntityGet_DropsRoot(es, ns, e, force, resp) ==
    IF ~force /\ es[e].root.present
    THEN [ents |-> es, nodes |-> ns, err |-> "ok", gets |-> 0]
    ELSE IF es[e].id = NoId
    THEN [ents |-> es, nodes |-> ns, err |-> "AssertionError", gets |-> 0]
    ELSE IF resp = 0
    THEN [ents |-> [es EXCEPT ![e].root = NoDoc], nodes |-> ns,
          err |-> "TransportError", gets |-> 1]
    ELSE LET p == Parsed(ns, Remote(es[e].kind, es[e].id, resp))
         IN  [ents |-> [es EXCEPT ![e].root = p.doc], nodes |-> p.nodes,
              err |-> "ok", gets |-> 1]

\* Entity.get(force): resp is the transport's answer to lims.get(self.uri),
\* 0 for an error, else the version of the document it returns; gets is the
\* number of calls of lims.get made
EntityGet(es, ns, e, force, resp) ==
    IF ~force /\ es[e].root.present
    THEN [ents |-> es, nodes |-> ns, err |-> "ok", gets |-> 0]
    ELSE IF es[e].id = NoId
    THEN [ents |-> es, nodes |-> ns, err |-> "AssertionError", gets |-> 0]
    ELSE IF resp = 0
    THEN [ents |-> es, nodes |-> ns, err |-> "TransportError", gets |-> 1]
    ELSE LET p == Parsed(ns, Remote(es[e].kind, es[e].id, resp))
         IN  [ents |-> [es EXCEPT ![e].root = p.doc], nodes |-> p.nodes,
              err |-> "ok", gets |-> 1]

\* whether get(force) reaches the transport
NeedsFetch(e, force) == (force \/ ~ents[e].root.present) /\ ents[e].id # NoId

Resps(e) == {0} \cup Versions(ents[e].kind)

\* the transport is called at most MaxCalls times
CanGet(e, force) == NeedsFetch(e, force) => gets < MaxCalls

Outcome(op, e, key, val, err, res) ==
    [op |-> op, ent |-> e, key |-> key, val |-> val, err |-> err, res |-> res]

(***************************** reads ***************************************)
\* What a descriptor's __get__ or a method yields: the heaps after it, the
\* exception raised ("ok" for none), the value returned (val) and the entity
\* instances returned (res: a list is a sequence, a dictionary a function).
Yield(g, es, ch, err, val, res) ==
    [ents |-> es, cache |-> ch, nodes |-> g.nodes, gets |-> g.gets, err |-> err,
     val |-> val, res |-> res]

\* lims._get_instance for each id of a list, in order
RECURSIVE Resolve(_, _, _, _)
Resolve(es, ch, kind, ids) ==
    IF Len(ids) = 0
    THEN [ents |-> es, cache |-> ch, insts |-> <<>>]
    ELSE LET g == GetInstance(es, ch, kind, Head(ids))
             r == Resolve(g.ents, g.cache, kind, Tail(ids))
         IN  [ents |-> r.ents, cache |-> r.cache, insts |-> <<g.inst>> \o r.insts]

\* StringDescriptor.__get__ for the tag 'name'
StringGet(es, ch, ns, e, resp) ==
    LET g == EntityGet(es, ns, e, FALSE, resp)
        root == g.ents[e].root
    IN  IF g.err # "ok" THEN Yield(g, g.ents, ch, g.err, VNone, <<>>)
        ELSE IF Len(root.name) = 0
        THEN Yield(g, g.ents, ch, "ok", VNone, <<>>)
        ELSE Yield(g, g.ents, ch, "ok", VStr(root.name[1]), <<>>)

\* EntityDescriptor.__get__ for Sample.artifact = EntityDescriptor('artifact', Artifact)
EntityDescriptorGet(es, ch, ns, e, resp) ==
    LET g == EntityGet(es, ns, e, FALSE, resp)
        root == g.ents[e].root
    IN  IF g.err # "ok" THEN Yield(g, g.ents, ch, g.err, VNone, <<>>)
        ELSE IF Len(root.artifact) = 0
        THEN Yield(g, g.ents, ch, "AttributeError", VNone, <<>>)
        ELSE LET id == LastSegment(UrlParse(root.artifact[1])[3])
                 r  == GetInstance(g.ents, ch, "Artifact", id)
             IN  Yield(g, r.ents, r.cache, "ok", VNone, <<r.inst>>)

\* EntityListDescriptor.__get__ for Artifact.samples = EntityListDescriptor('sample', Sample)
EntityListDescriptorGet(es, ch, ns, e, resp) ==
    LET g == EntityGet(es, ns, e, FALSE, resp)
        root == g.ents[e].root
    IN  IF g.err # "ok" THEN Yield(g, g.ents, ch, g.err, VNone, <<>>)
        ELSE LET ids == [i \in 1..Len(root.sample) |->
                           LastSegment(UrlParse(root.sample[i])[3])]
                 r   == Resolve(g.ents, ch, "Sample", ids)
             IN  Yield(g, r.ents, r.cache, "ok", VNone, r.insts)

\* LocationDescriptor.__get__ that also fetches the container it resolves
LocationDescriptorGet_Eager(es, ch, ns, e, resp) ==
    LET g == EntityGet(es, ns, e, FALSE, resp)
        root == g.ents[e].root
    IN  IF g.err # "ok" THEN Yield(g, g.ents, ch, g.err, VNone, <<>>)
        ELSE IF Len(root.location) = 0
        THEN Yield(g, g.ents, ch, "AttributeError", VNone, <<>>)
        ELSE LET r == GetInstance(g.ents, ch, "Container", root.location[1].container)
                 t == EntityGet(r.ents, g.nodes, r.inst, FALSE, 1)
             IN  Yield([nodes |-> t.nodes, gets |-> g.gets + t.gets], t.ents, r.cache,
                       "ok", VNone, <<r.inst>>)

\* LocationDescriptor.__get__ for Artifact.location
LocationDescriptorGet(es, ch, ns, e, resp) ==
    LET g == EntityGet(es, ns, e, FALSE, resp)
        root == g.ents[e].root
    IN  IF g.err # "ok" THEN Yield(g, g.ents, ch, g.err, VNone, <<>>)
        ELSE IF Len(root.location) = 0
        THEN Yield(g, g.ents, ch, "AttributeError", VNone, <<>>)
        ELSE LET r == GetInstance(g.ents, ch, "Container", root.location[1].container)
             IN  Yield(g, r.ents, r.cache, "ok", VNone, <<r.inst>>)

\* PlacementDictionaryDescriptor.__get__ for Container.placements: a
\* dictionary from position to artifact; a later node of a position wins
PlacementDictionaryDescriptorGet(es, ch, ns, e, resp) ==
    LET g == EntityGet(es, ns, e, FALSE, resp)
        root == g.ents[e].root
    IN  IF g.err # "ok" THEN Yield(g, g.ents, ch, g.err, VNone, <<>>)
        ELSE LET pn  == root.placement
                 ids == [i \in 1..Len(pn) |-> pn[i].limsid]
                 r   == Resolve(g.ents, ch, "Artifact", ids)
                 pos == {pn[i].value : i \in 1..Len(pn)}
                 LastOf(p) == CHOOSE i \in 1..Len(pn) :
                                 /\ pn[i].value = p
                                 /\ \A j \in (i + 1)..Len(pn) : pn[j].value # p
             IN  Yield(g, r.ents, r.cache, "ok", VNone,
                       [p \in pos |-> r.insts[LastOf(p)]])

\* Lims.get_batch(instances): one request for the documents of every
\* instance of the list that has none yet
RECURSIVE GetBatch(_, _, _)
GetBatch(es, ns, insts) ==
    IF insts = {} THEN [ents |-> es, nodes |-> ns]
    ELSE LET e == CHOOSE x \in insts : \A y \in insts : x <= y
             p == Parsed(ns, Remote(es[e].kind, es[e].id, 1))
         IN  IF es[e].root.present THEN GetBatch(es, ns, insts \ {e})
             ELSE GetBatch([es EXCEPT ![e].root = p.doc], p.nodes, insts \ {e})

\* get() on each instance of a set, one transport GET for each without a root
RECURSIVE FetchEach(_, _, _)
FetchEach(es, ns, insts) ==
    IF insts = {} THEN [ents |-> es, nodes |-> ns, gets |-> 0]
    ELSE LET e == CHOOSE x \in insts : \A y \in insts : x <= y
             g == EntityGet(es, ns, e, FALSE, 1)
             r == FetchEach(g.ents, g.nodes, insts \ {e})
         IN  [ents |-> r.ents, nodes |-> r.nodes, gets |-> g.gets + r.gets]

\* get_placements that fetches the artifacts one by one, with no batch call
GetPlacementsCall_FetchEach(es, ch, ns, e, resp) ==
    LET Each(r, f) ==
            IF r.err # "ok" THEN [r EXCEPT !.val = VInt(0)]
            ELSE [r EXCEPT !.ents = f.ents, !.nodes = f.nodes, !.gets = @ + f.gets,
                           !.val = VInt(0)]
        Values(r) == Each(r, FetchEach(r.ents, r.nodes, {r.res[p] : p \in DOMAIN r.res}))
    IN  Values(PlacementDictionaryDescriptorGet(es, ch, ns, e, resp))

\* Container.get_placements(): the placements dictionary, then one
\* lims.get_batch call for its values
GetPlacementsCall(es, ch, ns, e, resp) ==
    LET Batch(r, b) ==
            IF r.err # "ok" THEN [r EXCEPT !.val = VInt(0)]
            ELSE [r EXCEPT !.ents = b.ents, !.nodes = b.nodes, !.val = VInt(1)]
        Values(r) == Batch(r, GetBatch(r.ents, r.nodes, {r.res[p] : p \in DOMAIN r.res}))
    IN  Values(PlacementDictionaryDescriptorGet(es, ch, ns, e, resp))

\* StateDescriptor.__get__
StateGetCall(es, ch, ns, e, resp) ==
    LET g == EntityGet(es, ns, e, FALSE, resp)
        root == g.ents[e].root
    IN  IF g.err # "ok" THEN Yield(g, g.ents, ch, g.err, VNone, <<>>)
        ELSE IF ~root.hasUri
        THEN Yield(g, g.ents, ch, "KeyError", VNone, <<>>)
        ELSE LET params == QsValues(UrlParse(root.uri)[5], StateName)
             IN  Yield(g, g.ents, ch, "ok",
                       IF Len(params) = 0 THEN VNone ELSE VStr(params[1]), <<>>)

\* StateDescriptor.__set__: the six urlparse components, the query replaced,
\* handed to urlunsplit
StateSetCall(es, ch, ns, e, value, resp) ==
    LET g == EntityGet(es, ns, e, FALSE, resp)
        root == g.ents[e].root
    IN  IF g.err # "ok" THEN Yield(g, g.ents, ch, g.err, value, <<>>)
        ELSE IF ~root.hasUri
        THEN Yield(g, g.ents, ch, "KeyError", value, <<>>)
        ELSE LET parts == [UrlParse(root.uri) EXCEPT
                             ![5] = IF value = VNone THEN <<>> ELSE StateQuery(value.s)]
                 u == UrlUnsplit(parts)
             IN  IF u.err # "ok" THEN Yield(g, g.ents, ch, u.err, value, <<>>)
                 ELSE Yield(g, [g.ents EXCEPT ![e].root.uri = u.uri], ch,
                            "ok", value, <<>>)

(***************************** updates *************************************)
\* lims.tostring(ElementTree.ElementTree(root)): the document as it goes on
\* the wire, its udf:field elements by value, in the shape Remote gives
tostring(ns, root) ==
    [doc |-> [root EXCEPT !.fields = <<>>, !.typeFields = <<>>],
     udf |-> [i \in 1..Len(root.fields) |-> ns[root.fields[i]]],
     udt |-> [i \in 1..Len(root.typeFields) |-> ns[root.typeFields[i]]]]

\* an update handed to lims.put(uri, data)
Update(uri, data) == [uri |-> uri, data |-> data]

\* put() that does not assert the identifier
EntityPut_NoAssert(es, ns, snt, e, ser, ok) ==
    IF ~ser
    THEN [sent |-> snt, err |-> "SerializeError"]
    ELSE [sent |-> Append(snt, Update(EntityUri(es[e].kind, es[e].id),
                                      tostring(ns, es[e].root))),
          err  |-> IF ok THEN "ok" ELSE "TransportError"]

\* Entity.put(): assert self.uri (Entity.uri asserts self.id), serialize the
\* root, hand it to lims.put with the entity's uri.  ser is whether the
\* serializer accepts the root, ok whether the transport accepts the update
EntityPut(es, ns, snt, e, ser, ok) ==
    IF es[e].id = NoId
    THEN [sent |-> snt, err |-> "AssertionError"]
    ELSE IF ~ser
    THEN [sent |-> snt, err |-> "SerializeError"]
    ELSE [sent |-> Append(snt, Update(EntityUri(es[e].kind, es[e].id),
                                      tostring(ns, es[e].root))),
          err  |-> IF ok THEN "ok" ELSE "TransportError"]

\* StringDescriptor.__set__ that creates the element it does not find
StringSet_Creates(es, e, value) ==
    IF ~es[e].root.present
    THEN [ents |-> es, err |-> "AttributeError"]
    ELSE [ents |-> [es EXCEPT ![e].root.name = << value.s >>], err |-> "ok"]

\* StringDescriptor.__set__ for the tag 'name': instance.root.find(tag), with
\* no instance.get() before it; root None has no find, a missing element
\* is refused, a found one has its text replaced
StringSet(es, e, value) ==
    IF ~es[e].root.present
    THEN [ents |-> es, err |-> "AttributeError"]
    ELSE IF Len(es[e].root.name) = 0
    THEN [ents |-> es, err |-> "AttributeError"]
    ELSE [ents |-> [es EXCEPT ![e].root.name[1] = value.s], err |-> "ok"]

(************************** UDF dictionary *********************************)
\* A UdfDictionary object: instance, _udt, _elems (references to udf:field
\* elements) and _lookup (a dictionary from name to value)
ViewAttrs == {"instance", "_udt", "_elems", "_lookup"}

EmptyDict == [k \in {} |-> Absent]

NoView == [instance |-> 0, udt |-> VBool(FALSE), elems |-> <<>>, lookup |-> EmptyDict]

\* d[key] = value and del d[key] on a Python dictionary
DictSet(d, key, value) == [k \in DOMAIN d \cup {key} |-> IF k = key THEN value ELSE d[k]]
DictDel(d, key) == [k \in DOMAIN d \ {key} |-> d[k]]

\* UdfDictionary._update_elems
UpdateElems(es, v) ==
    LET root == es[v.instance].root
    IN  IF Truthy(v.udt)
        THEN IF root.hasType
             THEN [v EXCEPT !.udt = VStr(root.typeName), !.elems = root.typeFields]
             ELSE [v EXCEPT !.elems = <<>>]
        ELSE [v EXCEPT !.elems = root.fields]

\* the value _prepare_lookup computes for one element
Decode(type, text) ==
    IF Len(text) = 0 THEN [err |-> "ok", value |-> VNone]
    ELSE IF type = "numeric"
    THEN IF ParseInt(text).ok THEN [err |-> "ok", value |-> VInt(ParseInt(text).n)]
         ELSE IF ParseFloat(text).ok
         THEN [err |-> "ok", value |-> VFloat(ParseFloat(text).n)]
         ELSE [err |-> "ValueError", value |-> VNone]
    ELSE IF type = "boolean"
    THEN [err |-> "ok", value |-> VBool(text = <<"t", "r", "u", "e">>)]
    ELSE IF type = "date"
    THEN IF ParseDate(text).ok THEN [err |-> "ok", value |-> VDate(ParseDate(text).n)]
         ELSE [err |-> "ValueError", value |-> VNone]
    ELSE [err |-> "ok", value |-> VStr(text)]

\* UdfDictionary._prepare_lookup: elements in order, a later one of a name wins
RECURSIVE PrepareLookup(_, _, _)
PrepareLookup(ns, elems, d) ==
    IF Len(elems) = 0 THEN [err |-> "ok", lookup |-> d]
    ELSE LET elem == ns[Head(elems)]
             dec  == Decode(Lower(elem.type), elem.text)
         IN  IF dec.err # "ok" THEN [err |-> dec.err, lookup |-> d]
             ELSE PrepareLookup(ns, Tail(elems), DictSet(d, elem.name, dec.value))

\* UdfDictionary(instance, udt)
UdfDictionaryInit(es, ns, e, udt) ==
    LET v == UpdateElems(es, [NoView EXCEPT !.instance = e, !.udt = VBool(udt)])
        p == PrepareLookup(ns, v.elems, EmptyDict)
    IN  [err |-> p.err, view |-> [v EXCEPT !.lookup = p.lookup]]

\* UdfDictionary.__getitem__
GetItem(v, key) ==
    IF key \in DOMAIN v.lookup THEN [err |-> "ok", value |-> v.lookup[key]]
    ELSE [err |-> "KeyError", value |-> VNone]

\* the check and serialization __setitem__ makes for an existing element
Encode(type, value) ==
    LET checked ==
            IF value = VNone THEN [err |-> "ok", value |-> value]
            ELSE IF type \in {"string", "text"}
            THEN IF IsBasestring(value) THEN [err |-> "ok", value |-> value]
                 ELSE [err |-> "TypeError", value |-> value]
            ELSE IF type = "numeric"
            THEN IF IsIntOrFloat(value) THEN [err |-> "ok", value |-> VStr(PyStr(value))]
                 ELSE [err |-> "TypeError", value |-> value]
            ELSE IF type = "boolean"
            THEN IF IsBool(value) THEN [err |-> "ok", value |-> VStr(PyStr(value))]
                 ELSE [err |-> "TypeError", value |-> value]
            ELSE IF type = "date"
            THEN IF IsDate(value) THEN [err |-> "ok", value |-> VStr(PyStr(value))]
                 ELSE [err |-> "TypeError", value |-> value]
            ELSE [err |-> "TypeError", value |-> value]
    IN  IF checked.err # "ok" THEN checked
        ELSE IF ~IsBasestring(checked.value)
        THEN [err |-> "TypeError", value |-> checked.value]
        ELSE checked

\* the first element of elems named key, 0 for none
FirstNamed(ns, elems, key) ==
    IF \E i \in 1..Len(elems) : ns[elems[i]].name = key
    THEN elems[CHOOSE i \in 1..Len(elems) :
                   /\ ns[elems[i]].name = key
                   /\ \A j \in 1..(i - 1) : ns[elems[j]].name # key]
    ELSE 0

\* the heuristics of __setitem__ for a new element: its type and the value
\* to store as text; type "" when no case applies
Infer(value) ==
    IF IsBasestring(value)
    THEN [type |-> IF \E i \in 1..Len(value.s) : value.s[i] = "\n"
                   THEN "Text" ELSE "String",
          value |-> value]
    ELSE IF IsIntOrFloat(value) THEN [type |-> "Numeric", value |-> value]
    ELSE IF IsBool(value) THEN [type |-> "Boolean", value |-> VStr(PyStr(value))]
    ELSE IF IsDate(value) THEN [type |-> "Date", value |-> VStr(PyStr(value))]
    ELSE [type |-> "", value |-> value]

\* the else branch of __setitem__: a new udf:field element under the root
\* (or its udf:type child), reached through self._instance
CreateField(es, ns, v, key, value) ==
    LET inf == Infer(value)
        new == Len(ns) + 1
        e   == v.instance
    IN  IF inf.type = ""
        THEN [ents |-> es, nodes |-> ns, err |-> "UnboundLocalError"]
        ELSE IF "_instance" \notin ViewAttrs
        THEN [ents |-> es, nodes |-> ns, err |-> "AttributeError"]
        ELSE IF Truthy(v.udt) /\ ~es[e].root.hasType
        THEN [ents |-> es, nodes |-> ns, err |-> "TypeError"]
        ELSE [ents  |-> IF Truthy(v.udt)
                        THEN [es EXCEPT ![e].root.typeFields = Append(@, new)]
                        ELSE [es EXCEPT ![e].root.fields = Append(@, new)],
              nodes |-> Append(ns, Field(key, inf.type,
                                         IF IsBasestring(inf.value) THEN inf.value.s
                                         ELSE <<>>)),
              err   |-> IF IsBasestring(inf.value) THEN "ok" ELSE "TypeError"]

\* UdfDictionary.__setitem__
SetItem(es, ns, v, key, value) ==
    LET v1   == [v EXCEPT !.lookup = DictSet(v.lookup, key, value)]
        node == FirstNamed(ns, v.elems, key)
        enc  == Encode(Lower(ns[node].type), value)
        c    == CreateField(es, ns, v1, key, value)
    IN  IF node # 0
        THEN IF enc.err # "ok"
             THEN [ents |-> es, nodes |-> ns, view |-> v1, err |-> enc.err]
             ELSE [ents |-> es, nodes |-> [ns EXCEPT ![node].text = enc.value.s],
                   view |-> v1, err |-> "ok"]
        ELSE [ents |-> c.ents, nodes |-> c.nodes, view |-> v1, err |-> c.err]

\* Element.remove(child) on the document root, for a udf:field child
RootRemove(es, e, node) ==
    LET fs == es[e].root.fields
    IN  IF \E i \in 1..Len(fs) : fs[i] = node
        THEN [err |-> "ok",
              ents |-> [es EXCEPT ![e].root.fields = SelectSeq(fs, LAMBDA x : x # node)]]
        ELSE [err |-> "ValueError", ents |-> es]

\* UdfDictionary.__delitem__
DelItem(es, ns, v, key) ==
    LET v1   == [v EXCEPT !.lookup = DictDel(v.lookup, key)]
        node == FirstNamed(ns, v.elems, key)
        r    == RootRemove(es, v.instance, node)
    IN  IF key \notin DOMAIN v.lookup
        THEN [ents |-> es, view |-> v, err |-> "KeyError"]
        ELSE IF node = 0
        THEN [ents |-> es, view |-> v1, err |-> "ok"]
        ELSE IF "_instance" \notin ViewAttrs
        THEN [ents |-> es, view |-> v1, err |-> "AttributeError"]
        ELSE [ents |-> r.ents, view |-> v1, err |-> r.err]

\* the loop of clear(): remove each element from the root until one fails
RECURSIVE RemoveAll(_, _, _)
RemoveAll(es, e, elems) ==
    IF Len(elems) = 0 THEN [err |-> "ok", ents |-> es]
    ELSE LET r == RootRemove(es, e, Head(elems))
         IN  IF r.err # "ok" THEN r ELSE RemoveAll(r.ents, e, Tail(elems))

\* UdfDictionary.clear
Clear(es, v) ==
    LET r == RemoveAll(es, v.instance, v.elems)
    IN  IF r.err # "ok" THEN [ents |-> r.ents, view |-> v, err |-> r.err]
        ELSE [ents |-> r.ents, view |-> UpdateElems(r.ents, v), err |-> "ok"]

\* UdfDictionaryDescriptor.__get__ / UdtDictionaryDescriptor.__get__
UdfDictionaryDescriptorGet(es, ch, ns, e, udt, resp) ==
    LET g == EntityGet(es, ns, e, FALSE, resp)
        d == UdfDictionaryInit(g.ents, g.nodes, e, udt)
    IN  IF g.err # "ok"
        THEN [y |-> Yield(g, g.ents, ch, g.err, VNone, <<>>), view |-> NoView]
        ELSE [y |-> Yield(g, g.ents, ch, d.err, VNone, <<>>), view |-> d.view]

(***************************** actions *************************************)
\* the transport answers that matter to a call: none when no fetch is made
RespsFor(e, force) == IF NeedsFetch(e, force) THEN Resps(e) ELSE {1}

\* a call that reaches no transport and parses nothing
Idle == [nodes |-> nodes, gets |-> 0]

\* the state after a call that yielded y
Commit(op, e, key, y) ==
    /\ Len(y.ents) <= MaxEnts
    /\ ents' = y.ents
    /\ cache' = y.cache
    /\ nodes' = y.nodes
    /\ gets' = gets + y.gets
    /\ last' = Outcome(op, e, key, y.val, y.err, y.res)

\* a client resolves (kind, id) through the session: lims._get_instance
Lookup(k) ==
    LET r == GetInstance(ents, cache, k[1], k[2])
    IN  /\ Commit("get_instance", r.inst, "", Yield(Idle, r.ents, r.cache, "ok", VNone, <<r.inst>>))
        /\ UNCHANGED <<view, batches, sent>>

\* a client constructs an entity itself: Kind(lims, id=id), id None included
Construct(kind, id) ==
    LET r == EntityInit(ents, cache, kind, id)
    IN  /\ Commit("construct", r.inst, "", Yield(Idle, r.ents, r.cache, "ok", VNone, <<r.inst>>))
        /\ UNCHANGED <<view, batches, sent>>

\* the same with the document of a list response stored as its root
SeedRoot(es, ns, e, ver) ==
    LET p == Parsed(ns, Remote(es[e].kind, es[e].id, ver))
    IN  [ents |-> [es EXCEPT ![e].root = p.doc], nodes |-> p.nodes, gets |-> 0]

ConstructWithDocument(kind, id, ver) ==
    LET r == EntityInit(ents, cache, kind, id)
        d == SeedRoot(r.ents, nodes, r.inst, ver)
    IN  /\ Commit("construct_doc", r.inst, "", Yield(d, d.ents, r.cache, "ok", VNone, <<r.inst>>))
        /\ UNCHANGED <<view, batches, sent>>

\* entity.get(force)
Get(e, force, resp) ==
    LET g == EntityGet(ents, nodes, e, force, resp)
    IN  /\ CanGet(e, force)
        /\ Commit(IF force THEN "get_force" ELSE "get", e, "",
                  Yield(g, g.ents, cache, g.err, VBool(ents[e].root.present), <<>>))
        /\ UNCHANGED <<view, batches, sent>>

\* entity.name
ReadName(e, resp) ==
    /\ CanGet(e, FALSE)
    /\ Commit("name", e, "", StringGet(ents, cache, nodes, e, resp))
    /\ UNCHANGED <<view, batches, sent>>

\* sample.artifact
ReadEntity(e, resp) ==
    /\ ents[e].kind = "Sample"
    /\ CanGet(e, FALSE)
    /\ Commit("artifact", e, "", EntityDescriptorGet(ents, cache, nodes, e, resp))
    /\ UNCHANGED <<view, batches, sent>>

\* artifact.samples
ReadEntityList(e, resp) ==
    /\ ents[e].kind = "Artifact"
    /\ CanGet(e, FALSE)
    /\ Commit("samples", e, "", EntityListDescriptorGet(ents, cache, nodes, e, resp))
    /\ UNCHANGED <<view, batches, sent>>

\* artifact.location
ReadLocation(e, resp) ==
    /\ ents[e].kind = "Artifact"
    /\ CanGet(e, FALSE)
    /\ Commit("location", e, "", LocationDescriptorGet(ents, cache, nodes, e, resp))
    /\ UNCHANGED <<view, batches, sent>>

\* container.placements
ReadPlacements(e, resp) ==
    /\ ents[e].kind = "Container"
    /\ CanGet(e, FALSE)
    /\ Commit("placements", e, "", PlacementDictionaryDescriptorGet(ents, cache, nodes, e, resp))
    /\ UNCHANGED <<view, batches, sent>>

\* container.get_placements(); batches counts the lims.get_batch calls
GetPlacements(e, resp) ==
    LET Call(y) == /\ Commit("get_placements", e, "", y)
                   /\ batches' = batches + y.val.n
    IN  /\ ents[e].kind = "Container"
        /\ CanGet(e, FALSE)
        /\ batches < MaxBatch
        /\ Call(GetPlacementsCall(ents, cache, nodes, e, resp))
        /\ UNCHANGED <<view, sent>>

\* artifact.state
StateGet(e, resp) ==
    /\ ents[e].kind = "Artifact"
    /\ CanGet(e, FALSE)
    /\ Commit("state", e, "", StateGetCall(ents, cache, nodes, e, resp))
    /\ UNCHANGED <<view, batches, sent>>

\* artifact.state = value
StateSet(e, value, resp) ==
    /\ ents[e].kind = "Artifact"
    /\ CanGet(e, FALSE)
    /\ Commit("set_state", e, "", StateSetCall(ents, cache, nodes, e, value, resp))
    /\ UNCHANGED <<view, batches, sent>>

StateValues == {VNone, VStr(QUEUED)}

Init ==
    /\ ents = <<>>
    /\ cache = NoCache
    /\ nodes = <<>>
    /\ view = NoView
    /\ gets = 0
    /\ batches = 0
    /\ sent = <<>>
    /\ last = Outcome("init", 0, "", VNone, "ok", <<>>)

Next ==
    \/ \E k \in MainKeys : Lookup(k)
    \/ \E k \in MainKeys : Construct(k[1], k[2])
    \/ \E k \in MainKeys : \E ver \in Versions(k[1]) : ConstructWithDocument(k[1], k[2], ver)
    \/ \E e \in Insts : \E force \in BOOLEAN : \E resp \in RespsFor(e, force) : Get(e, force, resp)
    \/ \E e \in Insts : \E resp \in RespsFor(e, FALSE) : ReadName(e, resp)
    \/ \E e \in Insts : \E resp \in RespsFor(e, FALSE) : ReadEntity(e, resp)
    \/ \E e \in Insts : \E resp \in RespsFor(e, FALSE) : ReadEntityList(e, resp)
    \/ \E e \in Insts : \E resp \in RespsFor(e, FALSE) : ReadLocation(e, resp)
    \/ \E e \in Insts : \E resp \in RespsFor(e, FALSE) : ReadPlacements(e, resp)
    \/ \E e \in Insts : \E resp \in RespsFor(e, FALSE) : GetPlacements(e, resp)
    \/ \E e \in Insts : \E resp \in RespsFor(e, FALSE) : StateGet(e, resp)
    \/ \E e \in Insts : \E v \in StateValues : \E resp \in RespsFor(e, FALSE) : StateSet(e, v, resp)

Spec == Init /\ [][Next]_vars

(************************ UDF dictionary actions ***************************)
\* the names a client uses with the dictionary of an entity of a kind: names
\* of its document and, for most kinds, one the document does not have
KeyNames(kind) == CASE kind = "Project"    -> {"Color", "Vol"}
                    [] kind = "Lab"        -> {"Flag", "New"}
                    [] kind = "Process"    -> {"Day", "New"}
                    [] kind = "Researcher" -> {"Note", "New"}
                    [] OTHER               -> {"New"}

\* the names the client of the current dictionary uses
ViewKeys == IF view.instance = 0 THEN {} ELSE KeyNames(ents[view.instance].kind)

\* the values a client writes: one of each supported type and one of a type
\* that is not supported
UdfValues == {VStr(<<"a">>), VStr(<<"a", "\n", "b">>), VInt(8), VFloat(125),
              VBool(TRUE), VDate(20120101), VOther}

\* d = entity.udf (udt FALSE) or d = entity.udt (udt TRUE)
UdfAttr(e, udt, resp) ==
    LET r == UdfDictionaryDescriptorGet(ents, cache, nodes, e, udt, resp)
    IN  /\ CanGet(e, FALSE)
        /\ Commit(IF udt THEN "udt" ELSE "udf", e, "", r.y)
        /\ view' = IF r.y.err = "ok" THEN r.view ELSE view
        /\ UNCHANGED <<batches, sent>>

\* d[key] = value
UdfSet(key, value) ==
    LET r == SetItem(ents, nodes, view, key, value)
    IN  /\ view.instance # 0
        /\ ents' = r.ents
        /\ nodes' = r.nodes
        /\ view' = r.view
        /\ last' = Outcome("setitem", view.instance, key, value, r.err, <<>>)
        /\ UNCHANGED <<cache, gets, batches, sent>>

\* del d[key]
UdfDel(key) ==
    LET r == DelItem(ents, nodes, view, key)
    IN  /\ view.instance # 0
        /\ ents' = r.ents
        /\ view' = r.view
        /\ last' = Outcome("delitem", view.instance, key, VNone, r.err, <<>>)
        /\ UNCHANGED <<cache, nodes, gets, batches, sent>>

\* d.clear()
UdfClear ==
    LET r == Clear(ents, view)
    IN  /\ view.instance # 0
        /\ ents' = r.ents
        /\ view' = r.view
        /\ last' = Outcome("clear", view.instance, "", VNone, r.err, <<>>)
        /\ UNCHANGED <<cache, nodes, gets, batches, sent>>

\* the session has resolved one entity that carries UDFs
InitUdf ==
    \E k \in UdfKeys :
        LET r == GetInstance(<<>>, NoCache, k[1], k[2])
        IN  /\ ents = r.ents
            /\ cache = r.cache
            /\ nodes = <<>>
            /\ view = NoView
            /\ gets = 0
            /\ batches = 0
            /\ sent = <<>>
            /\ last = Outcome("get_instance", r.inst, "", VNone, "ok", <<r.inst>>)

NextUdf ==
    \/ \E e \in Insts : \E udt \in BOOLEAN : \E resp \in RespsFor(e, FALSE) : UdfAttr(e, udt, resp)
    \/ \E e \in Insts : \E resp \in RespsFor(e, TRUE) : Get(e, TRUE, resp)
    \/ \E key \in ViewKeys : \E value \in UdfValues : UdfSet(key, value)
    \/ \E key \in ViewKeys : UdfDel(key)
    \/ UdfClear

SpecUdf == InitUdf /\ [][NextUdf]_vars

(*************************** update actions ********************************)
\* the entities a client edits and saves
PutKeys == {<<"Artifact", "A1">>}

\* the names a client writes
NameValues == {VStr(<<"m">>), VStr(<<>>)}

\* the serializer's answers that matter: a root that is there serializes
SerFor(e) == IF ents[e].root.present THEN {TRUE} ELSE BOOLEAN

\* entity.name = value
SetName(e, value) ==
    LET r == StringSet(ents, e, value)
    IN  /\ ents' = r.ents
        /\ last' = Outcome("set_name", e, "", value, r.err, <<>>)
        /\ UNCHANGED <<cache, nodes, view, gets, batches, sent>>

\* entity.put()
Put(e, ser, ok) ==
    LET r == EntityPut(ents, nodes, sent, e, ser, ok)
    IN  /\ Len(r.sent) <= MaxPuts
        /\ sent' = r.sent
        /\ last' = Outcome("put", e, "", VNone, r.err, <<>>)
        /\ UNCHANGED <<ents, cache, nodes, view, gets, batches>>

NextPut ==
    \/ \E k \in PutKeys : Lookup(k)
    \/ \E k \in PutKeys : \E id \in {k[2], NoId} : Construct(k[1], id)
    \/ \E k \in PutKeys : \E ver \in Versions(k[1]) : ConstructWithDocument(k[1], k[2], ver)
    \/ \E e \in Insts : \E force \in BOOLEAN : \E resp \in RespsFor(e, force) : Get(e, force, resp)
    \/ \E e \in Insts : \E resp \in RespsFor(e, FALSE) : ReadName(e, resp)
    \/ \E e \in Insts : \E value \in NameValues : SetName(e, value)
    \/ \E e \in Insts : \E ser \in SerFor(e) : \E ok \in BOOLEAN : Put(e, ser, ok)

SpecPut == Init /\ [][NextPut]_vars

(******************************* claims ************************************)
\* calls that go through instance.get() and only read
ReadOps == {"get", "name", "artifact", "samples", "location", "placements",
            "get_placements", "state", "udf", "udt"}

\* reads of a reference-typed attribute
RefOps == {"artifact", "samples", "location", "placements"}

\* C1: a cache entry, once registered for a key, is never replaced by a
\* different instance, whatever entities are constructed or resolved.
C1_CacheEntryStable ==
    [][\A k \in Keys : cache[k] # 0 => cache'[k] = cache[k]]_vars

\* C2: a call that goes through get(force=False) on an entity that has a
\* document root (fetched before, or supplied at construction) does not reach
\* the transport and leaves the root as it is; on an entity without a root it
\* reaches the transport once, and a successful answer becomes the root, so
\* that no later read fetches again.
C2_LazyFetchOnce ==
    [][last'.op \in ReadOps =>
         LET e == last'.ent
         IN  IF ents[e].root.present
             THEN gets' = gets /\ ents'[e].root = ents[e].root
             ELSE /\ gets' \in {gets, gets + 1}
                  /\ (gets' = gets + 1 /\ last'.err # "TransportError")
                         => ents'[e].root.present]_vars

C2_Witness ==
    /\ last.op = "get"
    /\ last.err = "ok"
    /\ last.val = VBool(TRUE)
    /\ gets = 1

\* C8: after artifact.state = value on an entity whose root carries a uri, the
\* set has succeeded, the query of the uri is empty for None and state=QUEUED
\* for "QUEUED", reading the state returns the value, and scheme, host and
\* path are those of the entity's own uri.
C8_StateFromUri ==
    (last.op = "set_state" /\ ents[last.ent].root.present /\ ents[last.ent].root.hasUri) =>
        LET e == last.ent
            u == ents[e].root.uri
            own == EntityUri(ents[e].kind, ents[e].id)
        IN  /\ last.err = "ok"
            /\ u.query = (IF last.val = VNone THEN <<>> ELSE StateQuery(last.val.s))
            /\ StateGetCall(ents, cache, nodes, e, 1).val = last.val
            /\ u.scheme = own.scheme /\ u.netloc = own.netloc /\ u.path = own.path

\* C9: a successful container.get_placements() makes exactly one
\* lims.get_batch call, after which every artifact of the result has its
\* document; it makes no transport GET except the container's own lazy fetch;
\* and its result is the dictionary container.placements gives.
C9_BatchPlacements ==
    [][(last'.op = "get_placements" /\ last'.err = "ok") =>
         LET e == last'.ent
             res == last'.res
         IN  /\ batches' = batches + 1
             /\ gets' = gets + (IF ents[e].root.present THEN 0 ELSE 1)
             /\ \A p \in DOMAIN res : ents'[res[p]].root.present
             /\ res = PlacementDictionaryDescriptorGet(ents', cache', nodes', e, 1).res
             /\ DOMAIN res = {ents'[e].root.placement[i].value :
                                 i \in 1..Len(ents'[e].root.placement)}]_vars

C9_Witness ==
    /\ last.op = "get_placements"
    /\ last.err = "ok"
    /\ Cardinality(DOMAIN last.res) = 2
    /\ batches = 1
    /\ \A p \in DOMAIN last.res : ents[last.res[p]].root.present

\* C10: reading a reference-typed attribute leaves every other entity as it
\* was, gives each entity it constructs no document root, and reaches the
\* transport at most once, for the owner's own document.
C10_ReferencesNotFetched ==
    [][last'.op \in RefOps =>
         LET e == last'.ent
         IN  /\ \A i \in 1..Len(ents') :
                    i # e => IF i <= Len(ents) THEN ents'[i] = ents[i]
                             ELSE ~ents'[i].root.present
             /\ gets' = gets + (IF ents[e].root.present \/ last'.err = "AssertionError"
                                THEN 0 ELSE 1)]_vars

C10_Witness ==
    /\ last.op = "samples"
    /\ last.err = "ok"
    /\ Len(last.res) = 2
    /\ ents[last.ent].root.present
    /\ ~ents[last.res[1]].root.present

\* the value types the UDF dictionary supports
Supported(value) == value.t \in {"str", "int", "float", "bool", "date"}

\* a value matches the declared (lower-case) type of a field
Matches(type, value) ==
    CASE type \in {"string", "text"} -> value.t = "str"
      [] type = "numeric" -> value.t \in {"int", "float"}
      [] type = "boolean" -> value.t = "bool"
      [] type = "date"    -> value.t = "date"
      [] OTHER            -> FALSE

\* the type a new field is to get for a value
TypeFor(value) ==
    CASE value.t = "str" -> IF \E i \in 1..Len(value.s) : value.s[i] = "\n"
                            THEN "text" ELSE "string"
      [] value.t \in {"int", "float"} -> "numeric"
      [] value.t = "bool" -> "boolean"
      [] value.t = "date" -> "date"
      [] OTHER -> ""

\* the field elements the dictionary d would find in the document now
Backing(es, d) == UpdateElems(es, d).elems

\* C3: after write(key, v) with v of a supported type and valid for the
\* field (any supported value for a key without a backing element), the
\* write has completed and read(key) returns v.
C3_RoundTrip ==
    LET node == FirstNamed(nodes, view.elems, last.key)
    IN  (/\ last.op = "setitem"
         /\ Supported(last.val)
         /\ (node # 0 => Matches(Lower(nodes[node].type), last.val))) =>
            /\ last.err = "ok"
            /\ GetItem(view, last.key) = [err |-> "ok", value |-> last.val]

\* C4: a write of a value whose type does not match the declared type of the
\* existing backing field raises a type error and changes neither the
\* element's text nor the lookup map.
C4_NoMutationOnTypeError ==
    [][LET node == FirstNamed(nodes, view.elems, last'.key)
       IN  (/\ last'.op = "setitem"
            /\ node # 0
            /\ ~Matches(Lower(nodes[node].type), last'.val)) =>
               /\ last'.err = "TypeError"
               /\ nodes' = nodes
               /\ view'.lookup = view.lookup]_vars

\* C5: a write to a key without a backing element creates exactly one field
\* element, named by the key, of the type inferred from the value, in the
\* dictionary's region of the document; a value of an unsupported shape
\* raises the unsupported-value-type error and creates nothing.
C5_TypeInference ==
    [][LET key == last'.key
           value == last'.val
       IN  (/\ last'.op = "setitem"
            /\ FirstNamed(nodes, view.elems, key) = 0
            /\ FirstNamed(nodes, Backing(ents, view), key) = 0) =>
               IF Supported(value)
               THEN /\ last'.err = "ok"
                    /\ Len(nodes') = Len(nodes) + 1
                    /\ nodes'[Len(nodes')].name = key
                    /\ Lower(nodes'[Len(nodes')].type) = TypeFor(value)
                    /\ Backing(ents', view') = Append(Backing(ents, view), Len(nodes'))
               ELSE /\ last'.err = "NotImplementedError"
                    /\ nodes' = nodes]_vars

\* the lookup map of d agrees with the field elements of the document: same
\* names, and each value the decoding of the element's text
Consistent(es, ns, d) ==
    LET fresh == PrepareLookup(ns, Backing(es, d), EmptyDict)
    IN  fresh.err = "ok" /\ d.lookup = fresh.lookup

\* C6: write, delete and clear keep the lookup map and the backing elements
\* consistent, also when they end in an error.
C6_LookupConsistent ==
    [][(last'.op \in {"setitem", "delitem", "clear"} /\ Consistent(ents, nodes, view))
          => Consistent(ents', nodes', view')]_vars

\* C7: after a successful write(key, v) of a supported value through a view
\* whose elements are those of the document, a view constructed now on the
\* same entity returns v for read(key).
C7_CrossView ==
    (/\ last.op = "setitem"
     /\ last.err = "ok"
     /\ Supported(last.val)
     /\ view.elems = Backing(ents, view)) =>
        LET d == UdfDictionaryInit(ents, nodes, view.instance, Truthy(view.udt))
        IN  /\ d.err = "ok"
            /\ GetItem(d.view, last.key) = [err |-> "ok", value |-> last.val]

AttrOps == {"name", "artifact", "samples", "location", "placements", "state"}

\* C12: a read of an attribute on an entity whose document has been fetched
\* raises nothing, and when the element or attribute behind it is absent it
\* yields no value, or an empty collection for a list or a dictionary.
C12_MissingValueOnRead ==
    (last.op \in AttrOps /\ ents[last.ent].root.present) =>
        LET root == ents[last.ent].root
        IN  /\ last.err = "ok"
            /\ (last.op = "name" /\ Len(root.name) = 0) => last.val = VNone
            /\ (last.op = "artifact" /\ Len(root.artifact) = 0) => last.res = <<>>
            /\ (last.op = "location" /\ Len(root.location) = 0) => last.res = <<>>
            /\ (last.op = "samples" /\ Len(root.sample) = 0) => last.res = <<>>
            /\ (last.op = "placements" /\ Len(root.placement) = 0) => DOMAIN last.res = {}
            /\ (last.op = "state" /\ root.hasUri /\ Len(root.uri.query) = 0)
                   => last.val = VNone

\* C13: entity.name = value on an entity whose root has a name element
\* replaces that element's text and nothing else, so that reading the name
\* returns the value with no fetch; with no such element in the root (or no
\* root) it raises AttributeError and changes nothing; either way the
\* transport sees neither a fetch nor an update.
C13_StringSet ==
    [][last'.op = "set_name" =>
         LET e == last'.ent
             v == last'.val
             r == StringGet(ents', cache', nodes', e, 1)
         IN  /\ sent' = sent /\ gets' = gets /\ cache' = cache /\ nodes' = nodes
             /\ IF ents[e].root.present /\ Len(ents[e].root.name) > 0
                THEN /\ last'.err = "ok"
                     /\ ents[e].id # NoId
                     /\ ents' = [ents EXCEPT ![e].root.name[1] = v.s]
                     /\ r.err = "ok" /\ r.val = v /\ r.gets = 0
                ELSE /\ last'.err = "AttributeError"
                     /\ ents' = ents]_vars

C13_Witness ==
    /\ last.op = "set_name"
    /\ last.err = "ok"
    /\ last.val = VStr(<<"m">>)
    /\ ents[last.ent].root.name = << <<"m">> >>
    /\ gets = 1
    /\ sent = <<>>

\* the calls that go through instance.get()
GetOps == ReadOps \cup {"get_force", "set_state"}

\* C14: when the transport fetch raises during a call, the error reaches the
\* caller after one call of the transport, and every entity's root and the
\* cache are as before: an entity without a root still has none, so that the
\* next read of an attribute fetches again, and a forced get keeps the root
\* fetched before.
C14_FailedFetch ==
    [][(last'.op \in GetOps /\ last'.err = "TransportError") =>
         LET e == last'.ent
         IN  /\ gets' = gets + 1
             /\ ents' = ents
             /\ cache' = cache
             /\ ~ents[e].root.present =>
                    StringGet(ents', cache', nodes', e, 1).gets = 1
             /\ last'.op = "get_force" =>
                    ents'[e].root.present = ents[e].root.present]_vars

C14_Witness ==
    /\ last.op = "get_force"
    /\ last.err = "TransportError"
    /\ last.val = VBool(TRUE)
    /\ ents[last.ent].root.present
    /\ gets = 2
====
